---- MODULE Spec2Model ----
(***************************************************************************)
(* Configuration / options flow of the Mail and Packages integration       *)
(* (custom_components/mail_and_packages/config_flow.py, oauth.py).         *)
(*                                                                         *)
(* One flow instance is modelled: either a MailAndPackagesFlowHandler      *)
(* (flow = "config") or a MailAndPackagesOptionsFlow (flow = "options").   *)
(* Every async_step_* handler is an operator from the instance's fields    *)
(* (self._data, self._errors), the submitted user_input and the answers of *)
(* the outside world (mail server, identity provider, ffmpeg probe, file   *)
(* system) to an outcome: the new fields and the FlowResult handed back to *)
(* the host, or the exception that leaves the handler.                     *)
(*                                                                         *)
(* Python dicts are functions from keys to values; Python strings whose    *)
(* content is inspected are sequences of one-character strings.            *)
(***************************************************************************)
EXTENDS Integers, Sequences, FiniteSets, TLC

VARIABLES
    flow,       \* which handler class the instance is: "config" | "options"
    data,       \* self._data
    errors,     \* self._errors
    result,     \* what the last handler invocation handed back to the host
    call,       \* the last invocation: step, submission, test_login answer, handlers run
    cur_step,   \* the host's current step: the step id of the last form / menu shown
    hostOrder,  \* TRUE while every invocation so far was for the host's current step
    raw,        \* argument of _check_amazon_forwards (pure-function specification)
    ret,        \* what _check_amazon_forwards returned for raw
    listing,    \* what account.list() answered in _get_mailboxes: status, folderlist
    mailboxes,  \* what _get_mailboxes returned for listing
    config_entry, \* the host's existing config entry and self.reauth_entry (OAuth2 flow)
    written,    \* what each of two OAuth2FlowHandler instances wrote into self._data
    auth,       \* one O365Auth.client() call: configuration, provider, outcome
    hook,       \* webhook.py: host settings, handler configuration, callbacks, requests
    pending     \* the handler call that is suspended in an await, if any

vars == <<flow, data, errors, result, call, cur_step, hostOrder, raw, ret,
          listing, mailboxes, config_entry, written, auth, hook, pending>>

----------------------------------------------------------------------------
(* Bounds of the model.                                                    *)

\* Raw forwarding strings are concatenations of at most MaxParts chunks.
MaxParts == 3
\* the longest folder listing
MaxEntries == 3
\* Submitted scan intervals / timeouts range over floor-Margin .. floor.
Margin == 1

----------------------------------------------------------------------------
(* Keys of the dicts (config_flow.py imports them from const).             *)

CONF_HOST == "host"
CONF_PORT == "port"
CONF_USERNAME == "username"
CONF_PASSWORD == "password"
CONF_METHOD == "method"
CONF_O365_TENANT == "tenant"
CONF_CLIENT_ID == "client_id"
CONF_SECRET == "secret"
CONF_TOKEN == "access_token"
CONF_AMAZON_FWDS == "amazon_fwds"
CONF_GENERATE_MP4 == "generate_mp4"
CONF_CUSTOM_IMG == "custom_img"
CONF_CUSTOM_IMG_FILE == "custom_img_file"
CONF_SCAN_INTERVAL == "scan_interval"
CONF_IMAP_TIMEOUT == "imap_timeout"

\* Python's None where it is a value of a string-typed field.
None == "None"

----------------------------------------------------------------------------
(* dict helpers                                                            *)

EmptyDict == << >>
Has(d, k) == k \in DOMAIN d
\* dict.update(u): u's items override d's
Update(d, u) == u @@ d
Put(d, k, v) == (k :> v) @@ d

----------------------------------------------------------------------------
(* Strings as character sequences.                                         *)

Contains(s, sub) ==
    \E i \in 1..(Len(s) - Len(sub) + 1) : SubSeq(s, i, i + Len(sub) - 1) = sub

\* str.split(","): the pieces between the commas, empty pieces kept
RECURSIVE Split(_)
Split(s) ==
    IF \A i \in 1..Len(s) : s[i] # ","
    THEN <<s>>
    ELSE LET i == CHOOSE j \in 1..Len(s) :
                      s[j] = "," /\ \A k \in 1..(j - 1) : s[k] # ","
         IN  <<SubSeq(s, 1, i - 1)>> \o Split(SubSeq(s, i + 1, Len(s)))

AT_AMAZON == <<"@", "a", "m", "a", "z", "o", "n">>
COMMA == <<",">>
EMPTY_STR == << >>
NONE_STR == <<"(", "n", "o", "n", "e", ")">>

\* A value of the amazon_fwds field is a str (as submitted) or a list of str
\* (as written back by _validate_user_input); isinstance tells them apart.
Str(s) == [t |-> "str", v |-> s]
List(l) == [t |-> "list", v |-> l]

----------------------------------------------------------------------------
(* _check_amazon_forwards                                                  *)

\* "@amazon" in forwards
HasAmazonDomain_mut(forwards) == Contains(forwards, <<"a", "m", "a", "z", "o", "n">>)
HasAmazonDomain(forwards) == Contains(forwards, AT_AMAZON)

ForwardsList_mut(forwards) ==
    IF Contains(forwards, COMMA)
    THEN SelectSeq(Split(forwards), LAMBDA piece : piece # EMPTY_STR)
    ELSE IF forwards \in {EMPTY_STR, NONE_STR} THEN << >>
    ELSE <<forwards>>
\* the list built by the if / elif / elif chain
ForwardsList(forwards) ==
    IF Contains(forwards, COMMA) THEN Split(forwards)
    ELSE IF forwards \in {EMPTY_STR, NONE_STR, EMPTY_STR} THEN << >>
    ELSE IF forwards # EMPTY_STR THEN <<forwards>>
    ELSE << >>

\* returns (errors, amazon_forwards_list)
_check_amazon_forwards(forwards) ==
    LET errors0 == IF HasAmazonDomain(forwards) THEN <<"amazon_domain">> ELSE << >>
        errors1 == IF Len(errors0) = 0 THEN Append(errors0, "ok") ELSE errors0
    IN  [errors |-> errors1, list |-> ForwardsList(forwards)]

----------------------------------------------------------------------------
(* The outside world, as the handlers see it.                              *)

\* path.isfile: the files that exist on the host
isfile(p) == p \in {"ok.jpg"}

\* What the identity provider answers to one O365Auth.client():
\*   cached: acquire_token_silent returned a (token) result rather than None
\*   fresh : the result of acquire_token_for_client, should it be asked
\*           (it is not asked when cached, so one answer stands for both)
TokenResult == (CONF_TOKEN :> "tok")
ErrorResult == [error |-> "e", error_description |-> "d", correlation_id |-> "c"]
Provs ==
    {[cached |-> TRUE, fresh |-> TokenResult], [cached |-> FALSE, fresh |-> TokenResult],
     [cached |-> FALSE, fresh |-> ErrorResult]}

----------------------------------------------------------------------------
(* _validate_user_input                                                    *)

SCAN_FLOOR == 5
TIMEOUT_FLOOR == 10

\* user_input[CONF_SCAN_INTERVAL] < 5
ScanTooLow_mut(user_input) == user_input[CONF_SCAN_INTERVAL] < SCAN_FLOOR - 1
ScanTooLow(user_input) == user_input[CONF_SCAN_INTERVAL] < SCAN_FLOOR

\* user_input[CONF_IMAP_TIMEOUT] < 10
TimeoutTooLow_mut(user_input) == user_input[CONF_IMAP_TIMEOUT] <= TIMEOUT_FLOOR
TimeoutTooLow(user_input) == user_input[CONF_IMAP_TIMEOUT] < TIMEOUT_FLOOR

\* user_input[CONF_CUSTOM_IMG] and CONF_CUSTOM_IMG_FILE in user_input:
\* the custom file is looked up in the dict that was passed in
CustomFileValid(user_input) ==
    IF user_input[CONF_CUSTOM_IMG] /\ Has(user_input, CONF_CUSTOM_IMG_FILE)
    THEN isfile(user_input[CONF_CUSTOM_IMG_FILE])
    ELSE TRUE

\* what _validate_user_input ends with: the exception or "ok", and the pair
\* (errors, user_input) it returns; user_input is the dict passed in, modified
\* in place, so what was written before a KeyError stays written
V(x, e, ui) == [exc |-> x, errors |-> e, user_input |-> ui]

\* lines 108-114: a str is replaced by the parsed list, whatever the status;
\* chk is what _check_amazon_forwards returned for it
FwdsWriteBack(user_input, chk) ==
    IF user_input[CONF_AMAZON_FWDS].t = "str"
    THEN Put(user_input, CONF_AMAZON_FWDS, List(chk.list))
    ELSE user_input
FwdsErrors(user_input, chk) ==
    IF user_input[CONF_AMAZON_FWDS].t = "str" /\ chk.errors[1] # "ok"
    THEN (CONF_AMAZON_FWDS :> chk.errors[1])
    ELSE EmptyDict

\* lines 116-123; ffmpeg is what check_ffmpeg() answers
Mp4Errors(user_input, ffmpeg) ==
    IF user_input[CONF_GENERATE_MP4] /\ ~ffmpeg
    THEN (CONF_GENERATE_MP4 :> "ffmpeg_not_found")
    ELSE EmptyDict
\* lines 125-132
FileErrors(user_input) ==
    IF ~CustomFileValid(user_input)
    THEN (CONF_CUSTOM_IMG_FILE :> "file_not_found")
    ELSE EmptyDict
\* lines 134-136
ScanErrors(user_input) ==
    IF ScanTooLow(user_input) THEN (CONF_SCAN_INTERVAL :> "scan_too_low") ELSE EmptyDict
\* lines 138-140
TimeoutErrors(user_input) ==
    IF TimeoutTooLow(user_input)
    THEN (CONF_IMAP_TIMEOUT :> "timeout_too_low")
    ELSE EmptyDict

\* lines 116-142, on the dict as left by lines 108-114 with the errors e1 so far
ValidateRest(ui1, e1, ffmpeg) ==
    IF ~({CONF_GENERATE_MP4, CONF_CUSTOM_IMG, CONF_SCAN_INTERVAL, CONF_IMAP_TIMEOUT}
            \subseteq DOMAIN ui1)
    THEN V("KeyError", e1, ui1)
    ELSE V("ok",
           TimeoutErrors(ui1) @@ ScanErrors(ui1) @@ FileErrors(ui1)
               @@ Mp4Errors(ui1, ffmpeg) @@ e1,
           ui1)

ValidateFwds(user_input, chk, ffmpeg) ==
    ValidateRest(FwdsWriteBack(user_input, chk), FwdsErrors(user_input, chk), ffmpeg)

_validate_user_input(user_input, ffmpeg) ==
    IF ~Has(user_input, CONF_AMAZON_FWDS)
    THEN V("KeyError", EmptyDict, user_input)
    ELSE ValidateFwds(user_input,
                      _check_amazon_forwards(user_input[CONF_AMAZON_FWDS].v), ffmpeg)

----------------------------------------------------------------------------
(* oauth.py: O365Auth                                                      *)

O365Auth_mut(config) == IF ~Has(config, CONF_O365_TENANT) THEN "KeyError" ELSE "ok"
\* O365Auth.__init__ / _set_authority: the exception construction raises, or "ok"
O365Auth(config) ==
    IF ~Has(config, CONF_O365_TENANT) THEN "KeyError"
    ELSE IF config[CONF_O365_TENANT] = None THEN "MissingTenantID"
    ELSE "ok"

\* what client() ends with: the exception or "ok", the token left in self.token,
\* and the calls made to the identity provider (msal), in order
C(x, t, calls) == [exc |-> x, token |-> t, calls |-> calls]

\* lines 74-90, on the result of acquire_token_silent / acquire_token_for_client
ClientResult(res, calls) ==
    IF Has(res, CONF_TOKEN) THEN C("ok", res[CONF_TOKEN], calls)
    ELSE C("TokenError", None, calls)

\* One run of client().  It gives the event loop away in each of its three
\* `await self.hass.async_add_executor_job(...)`: at is "61", "68" or "76" while
\* the run is suspended in the job of that line, "done" once it has ended; calls
\* are the calls made to the provider so far; out is what it ended with.
Suspended(at, calls) == [at |-> at, calls |-> calls, out |-> C("none", None, calls)]
Ended(out) == [at |-> "done", calls |-> out.calls, out |-> out]

\* lines 56-66: up to the first executor job.  hassOK is FALSE when the object
\* was built with hass = None.
ClientEnter(config, hassOK) ==
    IF ~hassOK THEN Ended(C("AttributeError", None, << >>))
    ELSE IF ~Has(config, CONF_CLIENT_ID) \/ ~Has(config, CONF_SECRET)
    THEN Ended(C("KeyError", None, << >>))
    ELSE Suspended("61", <<"ConfidentialClientApplication">>)

NeedsGrant_mut(prov) == TRUE
\* line 74, `if not result:` on what acquire_token_silent returned
NeedsGrant(prov) == ~prov.cached

\* the run f goes on from where it is suspended to its next executor job or to
\* its end; prov.cached says whether acquire_token_silent finds a token,
\* prov.fresh is what acquire_token_for_client answers
ClientResume(f, prov) ==
    IF f.at = "61" THEN Suspended("68", Append(f.calls, "acquire_token_silent"))
    ELSE IF f.at = "68" /\ NeedsGrant(prov)
    THEN Suspended("76", Append(f.calls, "acquire_token_for_client"))
    ELSE IF f.at = "68" THEN Ended(ClientResult(TokenResult, f.calls))
    ELSE Ended(ClientResult(prov.fresh, f.calls))

----------------------------------------------------------------------------
(* FlowResults and handler outcomes                                        *)

MENU_OPTIONS == {"manual", "o365"}
\* o365 submissions are completed with the Outlook server's host and port
CONF_OUTLOOK_DEFAULTS == (CONF_HOST :> "outlook") @@ (CONF_PORT :> 993)

Res(type, step, errs, ui, x) ==
    [type |-> type, step_id |-> step, errors |-> errs, user_input |-> ui, exc |-> x]
NoResult == Res("none", "", EmptyDict, EmptyDict, "")
\* async_show_menu(step_id="user", ...)
async_show_menu == Res("menu", "user", EmptyDict, EmptyDict, "")
\* async_show_form(step_id=..., data_schema=<built from user_input>, errors=...)
async_show_form(step, errs, ui) == Res("form", step, errs, ui, "")
\* async_create_entry(..., data=self._data): the record is the dict self._data
async_create_entry == Res("create_entry", "", EmptyDict, EmptyDict, "")
\* an exception leaves the handler
Raise(x) == Res("raise", "", EmptyDict, EmptyDict, x)

\* What one handler invocation leaves behind: the instance's fields, the
\* FlowResult, what an awaited test_login answered ("none": not run to an
\* answer), the step handlers that ran, in order, the calls made to the
\* identity provider and to the mail server, in order, and how the handler's
\* own app.client() ended ("none": not called).
Out(d, e, r, login, entered) ==
    [data |-> d, errors |-> e, result |-> r, login |-> login, entered |-> entered,
     calls |-> << >>, client |-> "none",
     run |-> [at |-> "none", calls |-> << >>, out |-> C("none", None, << >>)]]

\* The same outcome, the calls made before it put in front.
WithCalls(calls, o) == [o EXCEPT !.calls = calls \o @]

\* The same outcome reached through an enclosing handler.
Via(step, login, o) == [o EXCEPT !.login = login, !.entered = <<step>> \o @]

\* The same outcome, O365Auth(...) having been built and its client() having
\* ended as c before it.
WithClient(c, o) == [o EXCEPT !.client = c.exc, !.calls = <<"O365Auth">> \o c.calls \o @]

\* The handler has not returned: it is suspended in app.client(), called at
\* line 456 (kind "o365") or at line 231 under _show_config_2 for the form of
\* step (kind "render"), ui being the user_input it holds; or
\* async_oauth_create_entry is suspended at the await of line 337 or 346.
Waiting(kind, step, ui) == Res("suspended", step, EmptyDict, ui, kind)

----------------------------------------------------------------------------
(* _get_mailboxes, _get_schema_step_2, _show_config_2                      *)

\* def _get_mailboxes(host, port, user, pwd, token): five required positionals
GET_MAILBOXES_ARITY == 5
\* callbacks followed per authorization
MaxCallbacks == 2
\* handler calls followed while another call is suspended
MaxOverlap == 1

\* A call of _get_mailboxes with the positional arguments args: the exception
\* it ends with, or "ok" (the listing itself falls back to the default folder).
_get_mailboxes(args) ==
    IF Len(args) # GET_MAILBOXES_ARITY THEN "TypeError" ELSE "ok"

\* lines 230-234 once O365Auth(hass, data) is built; c is how app.client() ended
SchemaO365(d, c) ==
    IF c.exc # "ok" THEN c.exc
    ELSE IF ~({CONF_HOST, CONF_PORT, CONF_USERNAME} \subseteq DOMAIN d) THEN "KeyError"
    ELSE _get_mailboxes(<<d[CONF_HOST], d[CONF_PORT], d[CONF_USERNAME], None, c.token>>)

\* lines 237-239
SchemaPassword(d) ==
    IF ~({CONF_HOST, CONF_PORT, CONF_USERNAME, CONF_PASSWORD} \subseteq DOMAIN d)
    THEN "KeyError"
    ELSE _get_mailboxes(<<d[CONF_HOST], d[CONF_PORT], d[CONF_USERNAME],
                          d[CONF_PASSWORD]>>)

\* _get_schema_step_2(data, user_input, default_dict, hass) up to line 231:
\* the exception that ends it, "client" when it goes on to await app.client(),
\* or what the password branch (lines 237-239) ends with
_get_schema_step_2(d) ==
    IF ~Has(d, CONF_METHOD) THEN "KeyError"
    ELSE IF d[CONF_METHOD] = "o365"
    THEN (IF O365Auth(d) # "ok" THEN O365Auth(d) ELSE "client")
    ELSE SchemaPassword(d)

\* the form, unless building its schema raised x
FormUnless(x, step, e, ui) ==
    IF x = "ok" THEN async_show_form(step, e, ui) ELSE Raise(x)

\* lines 232-234 and the form of _show_config_2, app.client() having ended as
\* c: data and self._errors are read now; login() runs once _get_mailboxes is
\* entered
Rendered(step, d, e, ui, c) ==
    WithCalls(<<"O365Auth">> \o c.calls
                  \o (IF SchemaO365(d, c) = "ok" THEN <<"login">> ELSE << >>),
              Out(d, e, FormUnless(SchemaO365(d, c), step, e, ui), "none", <<step>>))

\* _show_config_2 from `await app.client()` on, r being the run of client()
RenderFrom(step, d, e, ui, r) ==
    IF r.at = "done" THEN Rendered(step, d, e, ui, r.out)
    ELSE [Out(d, e, Waiting("render", step, ui), "none", <<step>>) EXCEPT !.run = r]

\* return await self._show_config_2(user_input) / _show_step_options_2, as the
\* handler of step
ShowStep2(step, d, e, ui, hassOK) ==
    IF _get_schema_step_2(d) = "client"
    THEN RenderFrom(step, d, e, ui, ClientEnter(d, hassOK))
    ELSE WithCalls(IF Has(d, CONF_METHOD) /\ d[CONF_METHOD] = "o365" THEN <<"O365Auth">>
                   ELSE IF _get_schema_step_2(d) = "ok" THEN <<"login">>
                   ELSE << >>,
                   Out(d, e, FormUnless(_get_schema_step_2(d), step, e, ui),
                       "none", <<step>>))

----------------------------------------------------------------------------
(* MailAndPackagesFlowHandler                                              *)
(* w is the outside world during the invocation:                           *)
(*   w.login  what test_login answers when awaited                         *)
(*   w.ffmpeg what check_ffmpeg answers                                    *)
(* The identity provider answers while app.client() is suspended.          *)
(* has = FALSE is user_input = None.                                       *)

NoErrors(e) == Cardinality(DOMAIN e) = 0

async_step_user(d, e) == Out(d, e, async_show_menu, "none", <<"user">>)

\* lines 574-578, v being what _validate_user_input(self._data) ended with
Config3Validated(v) ==
    IF v.exc # "ok"
    THEN Out(v.user_input, EmptyDict, Raise(v.exc), "none", <<"config_3">>)
    ELSE IF ~NoErrors(v.errors)
    THEN Out(v.user_input, v.errors,
             async_show_form("config_3", v.errors, v.user_input),
             "none", <<"config_3">>)
    ELSE IF ~Has(v.user_input, CONF_HOST)
    THEN Out(v.user_input, v.errors, Raise("KeyError"), "none", <<"config_3">>)
    ELSE Out(v.user_input, v.errors, async_create_entry, "none", <<"config_3">>)

async_step_config_3(d, e, has, u, w) ==
    IF ~has
    THEN Out(d, EmptyDict, async_show_form("config_3", EmptyDict, EmptyDict),
             "none", <<"config_3">>)
    ELSE Config3Validated(_validate_user_input(Update(d, u), w.ffmpeg))

\* self._data[CONF_CUSTOM_IMG] at line 534 / 646
CustomImgChosen_mut(d1) == FALSE
CustomImgChosen(d1) == d1[CONF_CUSTOM_IMG]

\* lines 533-539, d1 being self._data after the update of line 532
Config2Merged(d1, v, w) ==
    IF ~NoErrors(v.errors)
    THEN ShowStep2("config_2", d1, v.errors, v.user_input, TRUE)
    ELSE IF CustomImgChosen(d1)
    THEN Via("config_2", "none", async_step_config_3(d1, v.errors, FALSE, EmptyDict, w))
    ELSE IF ~Has(d1, CONF_HOST)
    THEN Out(d1, v.errors, Raise("KeyError"), "none", <<"config_2">>)
    ELSE Out(d1, v.errors, async_create_entry, "none", <<"config_2">>)

Config2Validated_mut(d, v, w) ==
    IF v.exc # "ok"
    THEN Out(d, EmptyDict, Raise(v.exc), "none", <<"config_2">>)
    ELSE Config2Merged(v.user_input, v, w)
\* lines 531-539, v being what _validate_user_input(user_input) ended with
Config2Validated(d, v, w) ==
    IF v.exc # "ok"
    THEN Out(d, EmptyDict, Raise(v.exc), "none", <<"config_2">>)
    ELSE Config2Merged(Update(d, v.user_input), v, w)

async_step_config_2(d, e, has, u, w) ==
    IF ~has
    THEN ShowStep2("config_2", d, EmptyDict, EmptyDict, TRUE)
    ELSE Config2Validated(d, _validate_user_input(u, w.ffmpeg), w)

\* The value of `valid` after line 499 is the awaited answer of test_login, w.login.
LoginAnswer(w) == IF w.login THEN "true" ELSE "false"
Communication(e) == Put(e, "base", "communication")

\* lines 497-510, u1 being user_input with the method tag
ManualSubmitted(d1, u1, w) ==
    IF ~w.login
    THEN Out(d1, Communication(EmptyDict),
             async_show_form("manual", Communication(EmptyDict), u1),
             LoginAnswer(w), <<"manual">>)
    ELSE Via("manual", LoginAnswer(w),
             async_step_config_2(d1, EmptyDict, FALSE, EmptyDict, w))

async_step_manual(d, e, has, u, w) ==
    IF ~has
    THEN Out(d, EmptyDict, async_show_form("manual", EmptyDict, EmptyDict),
             "none", <<"manual">>)
    ELSE WithCalls(<<"test_login">>,
                   ManualSubmitted(Update(d, Put(u, CONF_METHOD, "standard")),
                                   Put(u, CONF_METHOD, "standard"), w))

\* The value of `valid` after lines 457-463 when client() did not raise:
\* test_login(...) is called without await, so valid is the coroutine object,
\* which is truthy, and test_login never runs to an answer.
O365Valid(w) == TRUE

\* self._errors after lines 464-472, c being how app.client() ended and e
\* self._errors when it ended
O365Errors(e, c, w) ==
    IF c.exc = "ok"
    THEN IF O365Valid(w) THEN e ELSE Communication(e)
    ELSE IF c.exc = "TokenError" THEN Communication(Put(e, "base", "token"))
    ELSE Communication(Put(e, "base", "tenant"))

\* lines 457-477, app.client() having ended as c
O365Acquired(d1, u1, c, e2, w) ==
    IF c.exc \notin {"ok", "TokenError", "MissingTenantID"}
    THEN Out(d1, EmptyDict, Raise(c.exc), "none", <<"o365">>)
    ELSE IF NoErrors(e2)
    THEN Via("o365", "none", async_step_config_2(d1, e2, FALSE, EmptyDict, w))
    ELSE Out(d1, e2, async_show_form("o365", e2, u1), "none", <<"o365">>)

\* lines 456-477 from `await app.client()` on, r being the run of client(), d
\* and e being self._data and self._errors as they are now
O365From(d, e, u1, r, w) ==
    IF r.at = "done"
    THEN WithClient(r.out, O365Acquired(d, u1, r.out, O365Errors(e, r.out, w), w))
    ELSE [Out(d, e, Waiting("o365", "o365", u1), "none", <<"o365">>) EXCEPT !.run = r]

\* lines 448-477, u1 being user_input with the method tag and the defaults
O365Submitted(d1, u1, w) ==
    IF O365Auth(u1) # "ok"
    THEN WithCalls(<<"O365Auth">>,
                   Out(d1, EmptyDict, Raise(O365Auth(u1)), "none", <<"o365">>))
    ELSE O365From(d1, EmptyDict, u1, ClientEnter(u1, TRUE), w)


async_step_o365(d, e, has, u, w) ==
    IF ~has
    THEN Out(d, EmptyDict, async_show_form("o365", EmptyDict, EmptyDict),
             "none", <<"o365">>)
    ELSE O365Submitted(Update(d, Update(Put(u, CONF_METHOD, "o365"), CONF_OUTLOOK_DEFAULTS)),
                       Update(Put(u, CONF_METHOD, "o365"), CONF_OUTLOOK_DEFAULTS), w)

----------------------------------------------------------------------------
(* MailAndPackagesOptionsFlow                                              *)
(* _get_schema_step_2 is called without hass here, so hass is None in it.  *)

\* lines 683-685
Options3Validated(v) ==
    IF v.exc # "ok"
    THEN Out(v.user_input, EmptyDict, Raise(v.exc), "none", <<"options_3">>)
    ELSE IF ~NoErrors(v.errors)
    THEN Out(v.user_input, v.errors,
             async_show_form("options_3", v.errors, v.user_input),
             "none", <<"options_3">>)
    ELSE Out(v.user_input, v.errors, async_create_entry, "none", <<"options_3">>)

async_step_options_3(d, e, has, u, w) ==
    IF ~has
    THEN Out(d, EmptyDict, async_show_form("options_3", EmptyDict, EmptyDict),
             "none", <<"options_3">>)
    ELSE Options3Validated(_validate_user_input(Update(d, u), w.ffmpeg))

\* lines 645-649
Options2Merged(d1, v, w) ==
    IF ~NoErrors(v.errors)
    THEN ShowStep2("options_2", d1, v.errors, v.user_input, FALSE)
    ELSE IF CustomImgChosen(d1)
    THEN Via("options_2", "none",
             async_step_options_3(d1, v.errors, FALSE, EmptyDict, w))
    ELSE Out(d1, v.errors, async_create_entry, "none", <<"options_2">>)

\* lines 643-649
Options2Validated(d, v, w) ==
    IF v.exc # "ok"
    THEN Out(d, EmptyDict, Raise(v.exc), "none", <<"options_2">>)
    ELSE Options2Merged(Update(d, v.user_input), v, w)

async_step_options_2(d, e, has, u, w) ==
    IF ~has
    THEN ShowStep2("options_2", d, EmptyDict, EmptyDict, FALSE)
    ELSE Options2Validated(d, _validate_user_input(u, w.ffmpeg), w)

\* lines 614-627; self._errors is not reset at the top of async_step_init
InitSubmitted(d1, e, u, w) ==
    IF ~w.login
    THEN Out(d1, Communication(e), async_show_form("init", Communication(e), u),
             LoginAnswer(w), <<"init">>)
    ELSE Via("init", LoginAnswer(w),
             async_step_options_2(d1, e, FALSE, EmptyDict, w))

async_step_init(d, e, has, u, w) ==
    IF ~has
    THEN Out(d, e, async_show_form("init", e, EmptyDict), "none", <<"init">>)
    ELSE WithCalls(<<"test_login">>, InitSubmitted(Update(d, u), e, u, w))

----------------------------------------------------------------------------
(* Submissions and the outside world's answers                             *)

\* "a@b"
S_AB == <<"a", "@", "b">>

\* What the forms' schemas let through; for the tenant also None, which only a
\* caller that hands user_input to the handler itself can pass (cv.string
\* refuses it).
Step1Inputs ==
    {(CONF_HOST :> "imap") @@ (CONF_PORT :> 993) @@ (CONF_USERNAME :> "u1")
        @@ (CONF_PASSWORD :> p) : p \in {"p1"}}
O365Inputs ==
    {(CONF_USERNAME :> "u1") @@ (CONF_O365_TENANT :> t) @@ (CONF_CLIENT_ID :> "c1")
        @@ (CONF_SECRET :> "s1") : t \in {"t1", None}}
Step2Inputs ==
    {(CONF_AMAZON_FWDS :> Str(f)) @@ (CONF_GENERATE_MP4 :> m) @@ (CONF_CUSTOM_IMG :> c)
        @@ (CONF_SCAN_INTERVAL :> s) @@ (CONF_IMAP_TIMEOUT :> t) :
        \* "a@b" and "a@b,c@amazon"
        f \in {S_AB, S_AB \o COMMA \o <<"c">> \o AT_AMAZON},
        m \in BOOLEAN, c \in BOOLEAN,
        s \in (SCAN_FLOOR - Margin)..SCAN_FLOOR,
        t \in (TIMEOUT_FLOOR - Margin)..TIMEOUT_FLOOR}
Step3Inputs == {(CONF_CUSTOM_IMG_FILE :> f) : f \in {"ok.jpg", "missing.jpg"}}

\* config_entry.options of the entry an options flow is opened on
StdRecord ==
    (CONF_HOST :> "imap") @@ (CONF_PORT :> 993) @@ (CONF_USERNAME :> "u1")
        @@ (CONF_PASSWORD :> "p1") @@ (CONF_METHOD :> "standard")
        @@ (CONF_AMAZON_FWDS :> List(<< >>)) @@ (CONF_GENERATE_MP4 :> FALSE)
        @@ (CONF_CUSTOM_IMG :> FALSE) @@ (CONF_SCAN_INTERVAL :> SCAN_FLOOR)
        @@ (CONF_IMAP_TIMEOUT :> TIMEOUT_FLOOR)
\* an entry whose custom image has been deleted since it was configured
StaleImgRecord ==
    Put(Put(StdRecord, CONF_CUSTOM_IMG, TRUE), CONF_CUSTOM_IMG_FILE, "missing.jpg")

W(login, ffmpeg) == [login |-> login, ffmpeg |-> ffmpeg]

\* The answers a handler can consult, given the dict it works on.
FfmpegChoices(d) ==
    IF Has(d, CONF_GENERATE_MP4) /\ d[CONF_GENERATE_MP4] THEN BOOLEAN ELSE {TRUE}

----------------------------------------------------------------------------
(* The host: it calls one step handler at a time on the instance.          *)

\* The host's own dispatch: the first step, a menu choice, or a submission to
\* the form it last showed.
HostAllows(step, has) ==
    \/ cur_step = "start" /\ ~has /\ step = (IF flow = "config" THEN "user" ELSE "init")
    \/ cur_step = "user" /\ ~has /\ step \in MENU_OPTIONS
    \/ cur_step = step /\ has /\ step # "user"

\* _check_amazon_forwards has not been called; no handler has been called
NotCalled == [called |-> FALSE, errors |-> << >>, list |-> << >>]
NoCall == [step |-> "", has |-> FALSE, input |-> EmptyDict, login |-> "none",
           entered |-> << >>, calls |-> << >>, client |-> "none", alone |-> TRUE]

\* no handler call is suspended
NoPending == [step |-> "", has |-> FALSE, input |-> EmptyDict, overlaps |-> 0]

\* The handler called for step returns outcome o to the host.  cur_step is
\* followed only while the host's dispatch order has been kept; alone tells
\* that no other handler call of the instance was under way during this one.
Deliver(step, has, u, o, order, alone) ==
    /\ data' = o.data
    /\ errors' = o.errors
    /\ result' = o.result
    /\ call' = [step |-> step, has |-> has, input |-> u,
                login |-> o.login, entered |-> o.entered, calls |-> o.calls,
                client |-> o.client, alone |-> alone]
    /\ cur_step' = IF ~order THEN "any"
                   ELSE IF o.result.type \in {"form", "menu"} THEN o.result.step_id
                   ELSE IF o.result.type = "create_entry" THEN "done"
                   ELSE cur_step

\* what a suspended handler call holds itself: where it waits and with which
\* user_input, the run of app.client(), and what it has called so far; self._data
\* and self._errors are the instance's
Frame(o) ==
    [result |-> o.result, run |-> o.run, entered |-> o.entered, login |-> o.login,
     client |-> o.client, calls |-> o.calls]

\* The handler called for step is suspended in app.client(): what it has
\* written to the instance is there, and the latest call has no result.
Suspend(step, has, u, o) ==
    /\ data' = o.data
    /\ errors' = o.errors
    /\ pending' = [step |-> step, has |-> has, input |-> u, overlaps |-> 0,
                   o |-> Frame(o)]
    /\ result' = NoResult
    /\ call' = NoCall
    /\ UNCHANGED cur_step

\* One call of a step handler, o being what it comes to before it returns or
\* gives the event loop away.  A flow that created its entry is finished and
\* gets no further calls.  While a call is suspended the handlers can be called
\* again (the instance has no lock): at most MaxOverlap such calls are followed
\* (of the config_2 submissions those with one forwarding address, no mp4 and
\* the timeout at its floor), and one suspended call at a time.  The host's order is kept only by calls
\* made when no other is under way.
Invoke(step, has, u, o) ==
    /\ result.type # "create_entry"
    /\ pending # NoPending
          => /\ pending.overlaps < MaxOverlap
             /\ o.result.type # "suspended"
             /\ (has /\ u \in Step2Inputs)
                    => /\ u[CONF_AMAZON_FWDS] = Str(S_AB)
                       /\ ~u[CONF_GENERATE_MP4]
                       /\ u[CONF_IMAP_TIMEOUT] = TIMEOUT_FLOOR
    /\ hostOrder' = (hostOrder /\ HostAllows(step, has) /\ pending = NoPending)
    /\ IF o.result.type = "suspended"
       THEN Suspend(step, has, IF has THEN u ELSE EmptyDict, o)
       ELSE /\ Deliver(step, has, IF has THEN u ELSE EmptyDict, o, hostOrder',
                       pending = NoPending)
            /\ pending' = IF pending = NoPending THEN pending
                          ELSE [pending EXCEPT !.overlaps = @ + 1]
    /\ UNCHANGED <<flow, raw, ret, listing, mailboxes, config_entry, written, auth, hook>>

NoWorld == W(TRUE, TRUE)

\* The suspended call p goes on, app.client() having got to r: the handler
\* reads self._data (d) and self._errors (e) as they are now.
Continue(p, d, e, r) ==
    IF p.o.result.exc = "o365"
    THEN O365From(d, e, p.o.result.user_input, r, NoWorld)
    ELSE [RenderFrom(p.o.result.step_id, d, e, p.o.result.user_input, r) EXCEPT
             !.entered = p.o.entered, !.login = p.o.login, !.client = p.o.client,
             !.calls = p.o.calls \o @]

\* the suspended call after the executor job it waits for, prov being what the
\* provider answers
Resumed(prov) == Continue(pending, data, errors, ClientResume(pending.o.run, prov))

\* The executor job the suspended call waits for is done: app.client() goes on
\* to its next job, or ends and the handler goes on to its next await or returns.
StepResume ==
    /\ flow = "config"
    /\ pending # NoPending
    /\ \E prov \in Provs :
          IF Resumed(prov).result.type = "suspended"
          THEN /\ pending' = [pending EXCEPT !.o = Frame(Resumed(prov))]
               /\ data' = Resumed(prov).data
               /\ errors' = Resumed(prov).errors
               /\ UNCHANGED <<result, call, cur_step>>
          ELSE /\ Deliver(pending.step, pending.has, pending.input, Resumed(prov),
                          hostOrder, pending.overlaps = 0)
               /\ pending' = NoPending
    /\ UNCHANGED <<flow, hostOrder, raw, ret, listing, mailboxes, config_entry, written,
                   auth, hook>>

StepUser ==
    /\ flow = "config"
    /\ Invoke("user", FALSE, EmptyDict, async_step_user(data, errors))

StepManual ==
    /\ flow = "config"
    /\ \/ Invoke("manual", FALSE, EmptyDict,
                 async_step_manual(data, errors, FALSE, EmptyDict, NoWorld))
       \/ \E u \in Step1Inputs, login \in BOOLEAN :
             Invoke("manual", TRUE, u,
                    async_step_manual(data, errors, TRUE, u, W(login, TRUE)))

StepO365 ==
    /\ flow = "config"
    /\ \/ Invoke("o365", FALSE, EmptyDict,
                 async_step_o365(data, errors, FALSE, EmptyDict, NoWorld))
       \/ \E u \in O365Inputs :
             Invoke("o365", TRUE, u, async_step_o365(data, errors, TRUE, u, NoWorld))

StepConfig2 ==
    /\ flow = "config"
    /\ \/ Invoke("config_2", FALSE, EmptyDict,
                 async_step_config_2(data, errors, FALSE, EmptyDict, NoWorld))
       \/ \E u \in Step2Inputs :
             \E f \in FfmpegChoices(u) :
                Invoke("config_2", TRUE, u,
                       async_step_config_2(data, errors, TRUE, u, W(TRUE, f)))

StepConfig3 ==
    /\ flow = "config"
    /\ \/ Invoke("config_3", FALSE, EmptyDict,
                 async_step_config_3(data, errors, FALSE, EmptyDict, NoWorld))
       \/ \E u \in Step3Inputs, f \in FfmpegChoices(data) :
             Invoke("config_3", TRUE, u,
                    async_step_config_3(data, errors, TRUE, u, W(TRUE, f)))

StepInit ==
    /\ flow = "options"
    /\ \/ Invoke("init", FALSE, EmptyDict,
                 async_step_init(data, errors, FALSE, EmptyDict, NoWorld))
       \/ \E u \in Step1Inputs, login \in BOOLEAN :
             Invoke("init", TRUE, u,
                    async_step_init(data, errors, TRUE, u, W(login, TRUE)))

StepOptions2 ==
    /\ flow = "options"
    /\ \/ Invoke("options_2", FALSE, EmptyDict,
                 async_step_options_2(data, errors, FALSE, EmptyDict, NoWorld))
       \/ \E u \in Step2Inputs :
             \E f \in FfmpegChoices(u) :
                Invoke("options_2", TRUE, u,
                       async_step_options_2(data, errors, TRUE, u, W(TRUE, f)))

StepOptions3 ==
    /\ flow = "options"
    /\ \/ Invoke("options_3", FALSE, EmptyDict,
                 async_step_options_3(data, errors, FALSE, EmptyDict, NoWorld))
       \/ \E u \in Step3Inputs, f \in FfmpegChoices(data) :
             Invoke("options_3", TRUE, u,
                    async_step_options_3(data, errors, TRUE, u, W(TRUE, f)))

----------------------------------------------------------------------------
(* _get_mailboxes from account.list() on (lines 154-172).                  *)
(* A listing entry is a sequence of atoms: the delimiter tokens ' "/" ' and *)
(* ' "." ' are the atoms SLASH and DOT, any other atom is a piece of text    *)
(* holding neither token.                                                   *)

SLASH == "/"
DOT == "."
DEFAULT_FOLDER == <<"INBOX">>

\* i.decode().split(sep): the pieces between the occurrences of sep
RECURSIVE SplitOn(_, _)
SplitOn(entry, sep) ==
    IF \A i \in 1..Len(entry) : entry[i] # sep
    THEN <<entry>>
    ELSE LET i == CHOOSE j \in 1..Len(entry) :
                      entry[j] = sep /\ \A k \in 1..(j - 1) : entry[k] # sep
         IN  <<SubSeq(entry, 1, i - 1)>> \o SplitOn(SubSeq(entry, i + 1, Len(entry)), sep)

\* for i in folderlist: mailboxes.append(i.decode().split(sep)[1]), started on
\* the list acc; exc tells whether the [1] raised IndexError on some entry
RECURSIVE AppendNames(_, _, _)
AppendNames(acc, folderlist, sep) ==
    IF Len(folderlist) = 0 THEN [exc |-> FALSE, mailboxes |-> acc]
    ELSE IF Len(SplitOn(Head(folderlist), sep)) < 2 THEN [exc |-> TRUE, mailboxes |-> acc]
    ELSE AppendNames(Append(acc, SplitOn(Head(folderlist), sep)[2]),
                     Tail(folderlist), sep)

\* lines 165-170: the inner try / except IndexError, r2 being how the second
\* loop ended
DotFallback(r2) ==
    IF r2.exc THEN Append(r2.mailboxes, DEFAULT_FOLDER) ELSE r2.mailboxes

\* lines 160-170: the outer try / except IndexError, r1 being how the first
\* loop ended; the second loop appends to the list the first one has filled
SlashParsed(r1, folderlist) ==
    IF r1.exc THEN DotFallback(AppendNames(r1.mailboxes, folderlist, DOT))
    ELSE r1.mailboxes

\* lines 154-172
ListOK_mut(status) == TRUE
ListOK(status) == status = "OK"
ParseListing(status, folderlist) ==
    IF ~ListOK(status) THEN <<DEFAULT_FOLDER>>
    ELSE SlashParsed(AppendNames(<< >>, folderlist, SLASH), folderlist)

\* no config entry on the host, self.reauth_entry = None
NoEntry == [exists |-> FALSE, data |-> EmptyDict, mutable |-> FALSE, reauth |-> FALSE]

\* no OAuth2FlowHandler instance has written into self._data
NoWrites == <<EmptyDict, EmptyDict>>
\* no O365Auth object
NoAuth == [config |-> EmptyDict, hassOK |-> FALSE, prov |-> [cached |-> FALSE, fresh |-> EmptyDict],
           built |-> "none",
           run |-> [at |-> "none", calls |-> << >>,
                    out |-> [exc |-> "none", token |-> None, calls |-> << >>]]]
\* webhook.py not in use
NoHook == [host |-> [active |-> FALSE, cloudhook |-> [none |-> TRUE, url |-> << >>],
                     local |-> << >>],
           method |-> "", checked |-> FALSE, valid |-> FALSE, url |-> << >>,
           handled |-> << >>, refresh |-> [called |-> FALSE]]

NoListing == [status |-> "", folderlist |-> << >>]
NotListed == [called |-> FALSE, mailboxes |-> << >>]

\* MailAndPackagesFlowHandler.__init__ / MailAndPackagesOptionsFlow.__init__
Init ==
    /\ flow \in {"config", "options"}
    /\ data \in (IF flow = "config" THEN {EmptyDict} ELSE {StdRecord, StaleImgRecord})
    /\ errors = EmptyDict
    /\ result = NoResult
    /\ call = NoCall
    /\ cur_step = "start"
    /\ hostOrder = TRUE
    /\ raw = EMPTY_STR
    /\ ret = NotCalled
    /\ listing = NoListing
    /\ mailboxes = NotListed
    /\ config_entry = NoEntry
    /\ written = NoWrites
    /\ auth = NoAuth
    /\ hook = NoHook
    /\ pending = NoPending

Next ==
    \/ StepUser
    \/ StepManual
    \/ StepO365
    \/ StepConfig2
    \/ StepConfig3
    \/ StepInit
    \/ StepOptions2
    \/ StepOptions3
    \/ StepResume

Spec == Init /\ [][Next]_vars

----------------------------------------------------------------------------
(* _check_amazon_forwards as a function of its argument alone.             *)

CHUNKS ==
    {<<"a">>, <<"@">>, <<"a", "m", "a", "z", "o", "n">>, <<"@", "a", "m">>,
     <<"a", "z", "o", "n">>, COMMA, NONE_STR}

Extend(P) == P \cup {p \o c : p \in P, c \in CHUNKS}

RECURSIVE Concats(_)
Concats(n) == IF n = 0 THEN {<< >>} ELSE Extend(Concats(n - 1))

RawStrings == Concats(MaxParts)

CheckForwards ==
    /\ ~ret.called
    /\ ret' = [called |-> TRUE] @@ _check_amazon_forwards(raw)
    /\ UNCHANGED <<flow, data, errors, result, call, cur_step, hostOrder, raw,
                   listing, mailboxes, config_entry, written, auth, hook, pending>>

InitFwd ==
    /\ flow = "config"
    /\ data = EmptyDict
    /\ errors = EmptyDict
    /\ result = NoResult
    /\ call = NoCall
    /\ cur_step = "start"
    /\ hostOrder = TRUE
    /\ raw \in RawStrings
    /\ ret = NotCalled
    /\ listing = NoListing
    /\ mailboxes = NotListed
    /\ config_entry = NoEntry
    /\ written = NoWrites
    /\ auth = NoAuth
    /\ hook = NoHook
    /\ pending = NoPending

NextFwd == CheckForwards

SpecFwd == InitFwd /\ [][NextFwd]_vars

----------------------------------------------------------------------------
(* _get_mailboxes as a function of what account.list() answers.            *)

Entries ==
    {<<"f", SLASH, "A">>, <<"f", SLASH, "B">>, <<"f", DOT, "A">>,
     <<"f", SLASH, "A", DOT, "B">>, <<"f", SLASH, "A", SLASH, "B">>, <<"f">>}

RECURSIVE Listings(_)
Listings(n) ==
    IF n = 0 THEN {<< >>}
    ELSE Listings(n - 1) \cup {Append(l, e) : l \in Listings(n - 1), e \in Entries}

ListFolders ==
    /\ ~mailboxes.called
    /\ mailboxes' = [called |-> TRUE,
                     mailboxes |-> ParseListing(listing.status, listing.folderlist)]
    /\ UNCHANGED <<flow, data, errors, result, call, cur_step, hostOrder, raw, ret,
                   listing, config_entry, written, auth, hook, pending>>

InitBox ==
    /\ flow = "config"
    /\ data = EmptyDict
    /\ errors = EmptyDict
    /\ result = NoResult
    /\ call = NoCall
    /\ cur_step = "start"
    /\ hostOrder = TRUE
    /\ raw = EMPTY_STR
    /\ ret = NotCalled
    /\ listing \in [status : {"OK", "NO"}, folderlist : Listings(MaxEntries)]
    /\ mailboxes = NotListed
    /\ config_entry = NoEntry
    /\ written = NoWrites
    /\ auth = NoAuth
    /\ hook = NoHook
    /\ pending = NoPending

NextBox == ListFolders

SpecBox == InitBox /\ [][NextBox]_vars

----------------------------------------------------------------------------
(* OAuth2FlowHandler (Google): re-authentication and creation.             *)
(* data is the class attribute _data.  config_entry.mutable tells what kind *)
(* of mapping the host keeps in ConfigEntry.data: a read-only mappingproxy  *)
(* (Home Assistant itself) or a plain dict (a stand-in host).               *)

async_abort(reason) == [reason |-> reason] @@ Res("abort", "", EmptyDict, EmptyDict, "")
\* the inherited async_step_user: the external authorization step
async_external_step == Res("external", "auth", EmptyDict, EmptyDict, "")

HostCall(op, arg) == [op |-> op, data |-> arg]

\* what a run of async_oauth_create_entry has come to: self._data, the entry,
\* the result (or the await it is suspended in) and the calls made to the host
\* and to the executor, in order
OOut(d, e, r, calls) == [data |-> d, entry |-> e, result |-> r, calls |-> calls]

\* lines 333-337: data = self.reauth_entry.data.update(data) raises on a
\* mappingproxy; on a dict it merges in place and returns None, and None is
\* what async_update_entry is given; then the reload is awaited
OAuthReauth(d, e, tok) ==
    IF ~e.mutable
    THEN OOut(d, e, Raise("AttributeError"), << >>)
    ELSE OOut(d, [e EXCEPT !.data = Update(@, tok)], Waiting("337", "", EmptyDict),
              <<HostCall("async_update_entry", None)>>)

\* async_oauth_create_entry(data) up to its first await (337 or 346)
async_oauth_create_entry(d, e, tok) ==
    IF e.reauth
    THEN OAuthReauth(d, e, tok)
    ELSE IF ~Has(tok, "token") THEN OOut(d, e, Raise("KeyError"), << >>)
    ELSE OOut(d, e, Waiting("346", "", EmptyDict), << >>)

\* lines 348-351, email being what the Gmail profile request answered
OAuthCreate(d1, e, email) ==
    OOut(d1, e, ShowStep2("config_2", d1, EmptyDict, EmptyDict, TRUE).result,
         <<HostCall("_get_profile", email)>>)

\* async_oauth_create_entry from the await it is suspended in on: line 338
\* after the reload, lines 348-351 after the profile request
OAuthResumed(at, calls, d, e, email) ==
    IF at = "337"
    THEN OOut(d, e, async_abort("reauth_successful"),
              Append(calls, HostCall("async_reload", None)))
    ELSE OAuthCreate(Put(Put(d, CONF_USERNAME, email), CONF_METHOD, "gmail"), e, email)

\* submissions to the Google flow's config_2: what the form lets through, and
\* the same with a host item, which only a direct caller can add
OAuthStep2Inputs ==
    {u @@ x :
        u \in {v \in Step2Inputs : /\ v[CONF_AMAZON_FWDS] = Str(S_AB)
                                   /\ ~v[CONF_GENERATE_MP4]
                                   /\ v[CONF_IMAP_TIMEOUT] = TIMEOUT_FLOOR},
        x \in {EmptyDict, (CONF_HOST :> "imap")}}

\* the items one call of async_step_config_2 / async_step_config_3 assigns into
\* the class-level _data d, whatever value they held: config_2 the validated
\* user_input (line 358, not reached when validation raises); config_3 the
\* user_input (line 398) and, validation running on self._data itself, the
\* parsed list in place of a forwarding str (lines 108-114)
ItemsWritten(step, d, has, u) ==
    IF ~has THEN EmptyDict
    ELSE IF step = "config_2"
    THEN (IF _validate_user_input(u, TRUE).exc = "ok"
          THEN _validate_user_input(u, TRUE).user_input
          ELSE EmptyDict)
    ELSE IF Has(Update(d, u), CONF_AMAZON_FWDS) /\ Update(d, u)[CONF_AMAZON_FWDS].t = "str"
    THEN (CONF_AMAZON_FWDS :>
             List(_check_amazon_forwards(Update(d, u)[CONF_AMAZON_FWDS].v).list)) @@ u
    ELSE u

OCall(step, has, u, before, calls) ==
    [step |-> step, has |-> has, input |-> u, login |-> "none", entered |-> <<step>>,
     calls |-> calls, client |-> "none", alone |-> TRUE, before |-> before]

\* the flow goes on from result r
OAuthNext(r) ==
    IF r.type \in {"abort", "create_entry"} THEN "done"
    ELSE IF r.type = "form" THEN r.step_id
    ELSE cur_step

\* async_step_reauth: looks the entry up and goes on into
\* async_step_reauth_confirm() (line 318), which shows the confirm dialog
OAuthStepReauth ==
    /\ cur_step = "start"
    /\ config_entry.exists
    /\ config_entry' = [config_entry EXCEPT !.reauth = TRUE]
    /\ result' = async_show_form("reauth_confirm", EmptyDict, EmptyDict)
    /\ cur_step' = "reauth_confirm"
    /\ call' = [OCall("reauth", TRUE, config_entry.data, config_entry.data, << >>)
                   EXCEPT !.entered = <<"reauth", "reauth_confirm">>]
    /\ UNCHANGED <<flow, data, errors, hostOrder, raw, ret, listing, mailboxes, written, auth, hook, pending>>

\* async_step_reauth_confirm: the dialog again, or on into async_step_user()
\* (line 326)
OAuthStepReauthConfirm ==
    /\ cur_step = "reauth_confirm"
    /\ \E has \in BOOLEAN :
          /\ result' = IF has THEN async_external_step
                       ELSE async_show_form("reauth_confirm", EmptyDict, EmptyDict)
          /\ cur_step' = IF has THEN "auth" ELSE "reauth_confirm"
          /\ call' = [OCall("reauth_confirm", has, EmptyDict, config_entry.data, << >>)
                         EXCEPT !.entered = IF has THEN <<"reauth_confirm", "user">>
                                            ELSE <<"reauth_confirm">>]
    /\ UNCHANGED <<flow, data, errors, hostOrder, raw, ret, listing, mailboxes,
                   config_entry, written, auth, hook, pending>>

\* a new set-up starts at the inherited async_step_user
OAuthStepUser ==
    /\ cur_step = "start"
    /\ ~config_entry.exists
    /\ result' = async_external_step
    /\ cur_step' = "auth"
    /\ call' = OCall("user", FALSE, EmptyDict, config_entry.data, << >>)
    /\ UNCHANGED <<flow, data, errors, hostOrder, raw, ret, listing, mailboxes,
                   config_entry, written, auth, hook, pending>>

\* the authorization came back: async_oauth_create_entry(data) runs up to its
\* first await, or raises before it
OAuthCreateEntry ==
    /\ cur_step = "auth"
    /\ pending = NoPending
    \* what the token exchange hands over
    /\ \E tok \in {("token" :> t) @@ x :
                       t \in {"tok_old", "tok_1", "tok_2", "tok_3"},
                       x \in {EmptyDict, ("auth_implementation" :> "google2")}} :
          /\ config_entry' = async_oauth_create_entry(data, config_entry, tok).entry
          /\ IF async_oauth_create_entry(data, config_entry, tok).result.type = "suspended"
             THEN /\ pending' = [step |-> "oauth_create_entry", has |-> TRUE, input |-> tok,
                                 overlaps |-> 0, before |-> config_entry.data,
                                 o |-> async_oauth_create_entry(data, config_entry, tok)]
                  /\ result' = NoResult
                  /\ call' = NoCall
             ELSE /\ result' = async_oauth_create_entry(data, config_entry, tok).result
                  /\ call' = OCall("oauth_create_entry", TRUE, tok, config_entry.data,
                                   async_oauth_create_entry(data, config_entry, tok).calls)
                  /\ UNCHANGED pending
    /\ UNCHANGED <<flow, data, errors, cur_step, hostOrder, raw, ret, listing, mailboxes,
                   written, auth, hook>>

\* the reload (line 337) or the profile request (line 346) is done:
\* async_oauth_create_entry goes on to its return
OAuthResume ==
    /\ flow = "oauth"
    /\ pending # NoPending
    /\ \E email \in {"u1", "u2"} :
          \* the profile is asked for on the creation path only
          /\ pending.o.result.exc = "337" => email = "u1"
          /\ data' = OAuthResumed(pending.o.result.exc, pending.o.calls, data,
                                  config_entry, email).data
          /\ result' = OAuthResumed(pending.o.result.exc, pending.o.calls, data,
                                    config_entry, email).result
          /\ call' = [OCall("oauth_create_entry", TRUE, pending.input, pending.before,
                            OAuthResumed(pending.o.result.exc, pending.o.calls, data,
                                         config_entry, email).calls)
                         EXCEPT !.alone = (pending.overlaps = 0)]
          \* lines 348-349 assign both items, whatever _data held
          /\ written' = [written EXCEPT ![1] =
                            IF pending.o.result.exc = "337" THEN @
                            ELSE (CONF_USERNAME :> email) @@ (CONF_METHOD :> "gmail") @@ @]
    /\ cur_step' = OAuthNext(result')
    /\ pending' = NoPending
    /\ UNCHANGED <<flow, errors, hostOrder, raw, ret, listing, mailboxes, config_entry,
                   auth, hook>>

\* A call of the Google flow's step handler with outcome o: the host's after
\* the form of that step, or any caller's, also while async_oauth_create_entry
\* is suspended.
OAuthInvoke(step, has, u, o) ==
    /\ result.type \notin {"create_entry", "abort"}
    /\ pending # NoPending => pending.overlaps < MaxOverlap
    /\ hostOrder' = (hostOrder /\ cur_step = step /\ pending = NoPending)
    /\ data' = o.data
    /\ errors' = o.errors
    /\ result' = o.result
    /\ call' = [OCall(step, has, IF has THEN u ELSE EmptyDict, config_entry.data, o.calls)
                   EXCEPT !.entered = o.entered, !.alone = (pending = NoPending)]
    /\ cur_step' = OAuthNext(o.result)
    /\ written' = [written EXCEPT ![1] = Update(@, ItemsWritten(step, data, has, u))]
    /\ pending' = IF pending = NoPending THEN pending
                  ELSE [pending EXCEPT !.overlaps = @ + 1]
    /\ UNCHANGED <<flow, raw, ret, listing, mailboxes, config_entry, auth, hook>>

\* OAuth2FlowHandler.async_step_config_2 (lines 353-367)
OAuthStepConfig2 ==
    /\ flow = "oauth"
    /\ \/ OAuthInvoke("config_2", FALSE, EmptyDict,
                      async_step_config_2(data, errors, FALSE, EmptyDict, NoWorld))
       \/ \E u \in OAuthStep2Inputs :
             OAuthInvoke("config_2", TRUE, u,
                         async_step_config_2(data, errors, TRUE, u, NoWorld))

\* OAuth2FlowHandler.async_step_config_3 (lines 394-406)
OAuthStepConfig3 ==
    /\ flow = "oauth"
    /\ \/ OAuthInvoke("config_3", FALSE, EmptyDict,
                      async_step_config_3(data, errors, FALSE, EmptyDict, NoWorld))
       \/ \E u \in Step3Inputs :
             OAuthInvoke("config_3", TRUE, u,
                         async_step_config_3(data, errors, TRUE, u, NoWorld))

\* A second OAuth2FlowHandler instance, setting up a new entry, has its
\* profile request answered: lines 348-351 on that instance.  Its self._data
\* is the class attribute of line 301, the object the first instance's
\* self._data is.
OAuthPeerCreateEntry ==
    /\ written[2] = EmptyDict
    /\ \E email \in {"u1", "u2"} :
          /\ data' = OAuthResumed("346", << >>, data, NoEntry, email).data
          /\ written' = [written EXCEPT ![2] =
                            (CONF_USERNAME :> email) @@ (CONF_METHOD :> "gmail")]
    /\ UNCHANGED <<flow, errors, result, call, cur_step, hostOrder, raw, ret, listing,
                   mailboxes, config_entry, auth, hook, pending>>

InitOAuth ==
    /\ flow = "oauth"
    /\ data = EmptyDict
    /\ errors = EmptyDict
    /\ result = NoResult
    /\ call = NoCall
    /\ cur_step = "start"
    /\ hostOrder = TRUE
    /\ raw = EMPTY_STR
    /\ ret = NotCalled
    /\ listing = NoListing
    /\ mailboxes = NotListed
    /\ config_entry \in {NoEntry} \cup
            {[exists |-> TRUE, data |-> r, mutable |-> m, reauth |-> FALSE] :
                \* config entries of the Google method
                r \in {("auth_implementation" :> "google") @@ ("token" :> t)
                           @@ (CONF_USERNAME :> "u1") @@ (CONF_METHOD :> "gmail") @@ x :
                           t \in {"tok_old", "tok_1"},
                           x \in {EmptyDict, ("folder" :> "INBOX")}},
                m \in BOOLEAN}
    /\ written = NoWrites
    /\ auth = NoAuth
    /\ hook = NoHook
    /\ pending = NoPending

NextOAuth ==
    \/ OAuthStepReauth
    \/ OAuthStepReauthConfirm
    \/ OAuthStepUser
    \/ OAuthCreateEntry
    \/ OAuthResume
    \/ OAuthStepConfig2
    \/ OAuthStepConfig3
    \/ OAuthPeerCreateEntry

SpecOAuth == InitOAuth /\ [][NextOAuth]_vars

----------------------------------------------------------------------------
(* O365Auth on its own: the object is built, then client() is called once   *)

\* O365Auth(hass, config)
AuthBuild ==
    /\ auth.built = "none"
    /\ auth' = [auth EXCEPT !.built = O365Auth(auth.config)]
    /\ UNCHANGED <<flow, data, errors, result, call, cur_step, hostOrder, raw, ret,
                   listing, mailboxes, config_entry, written, hook, pending>>

\* app.client(): it is called, or goes on from the executor job it waits in
AuthClient ==
    /\ auth.built = "ok"
    /\ auth.run.at # "done"
    /\ auth' = [auth EXCEPT !.run = IF @.at = "none"
                                    THEN ClientEnter(auth.config, auth.hassOK)
                                    ELSE ClientResume(@, auth.prov)]
    /\ UNCHANGED <<flow, data, errors, result, call, cur_step, hostOrder, raw, ret,
                   listing, mailboxes, config_entry, written, hook, pending>>

InitAuth ==
    /\ flow = "o365auth"
    /\ data = EmptyDict
    /\ errors = EmptyDict
    /\ result = NoResult
    /\ call = NoCall
    /\ cur_step = "start"
    /\ hostOrder = TRUE
    /\ raw = EMPTY_STR
    /\ ret = NotCalled
    /\ listing = NoListing
    /\ mailboxes = NotListed
    /\ config_entry = NoEntry
    /\ written = NoWrites
    \* prov: acquire_token_silent finds a token or not, and what
    \* acquire_token_for_client answers
    /\ auth \in {[NoAuth EXCEPT !.config = c, !.hassOK = h,
                                !.prov = [cached |-> k, fresh |-> f]] :
                    c \in {(CONF_USERNAME :> "u1") @@ (CONF_O365_TENANT :> t)
                               @@ (CONF_CLIENT_ID :> i) @@ (CONF_SECRET :> x) :
                               t \in {"t1", "t2", None}, i \in {"c1", "c2"},
                               x \in {"s1", "s2"}},
                    h \in BOOLEAN, k \in BOOLEAN,
                    f \in {TokenResult, ErrorResult}}
    /\ hook = NoHook
    /\ pending = NoPending

NextAuth ==
    \/ AuthBuild
    \/ AuthClient

SpecAuth == InitAuth /\ [][NextAuth]_vars

----------------------------------------------------------------------------
(* webhook.py                                                              *)
(* URLs are sequences of one-character strings.  The host state is         *)
(*   h.active     cloud.async_active_subscription(hass)                    *)
(*   h.cloudhook  hass.data[DOMAIN][CONF_CLOUDHOOK_URL]: NoUrl is None     *)
(*   h.local      what webhook.async_generate_url(hass, webhook_id) gives  *)

HTTPS_PREFIX == <<"h", "t", "t", "p", "s", ":", "/", "/">>
\* the URL scheme://host
UrlOf(scheme, host) == scheme \o <<":", "/", "/", host>>

\* str.lower on the letters the URLs use
LowerChar(c) ==
    CASE c = "H" -> "h" [] c = "T" -> "t" [] c = "P" -> "p" [] c = "S" -> "s"
      [] OTHER -> c
Lower(s) == [i \in 1..Len(s) |-> LowerChar(s[i])]
\* str.startswith
StartsWith(s, prefix) ==
    Len(s) >= Len(prefix) /\ SubSeq(s, 1, Len(prefix)) = prefix

NoUrl == [none |-> TRUE, url |-> << >>]
Url(u) == [none |-> FALSE, url |-> u]

get_webhook_url(h) ==
    IF h.active /\ ~h.cloudhook.none THEN h.cloudhook.url ELSE h.local

validate_webhook_requirements(h) ==
    IF h.active THEN TRUE
    ELSE IF ~h.cloudhook.none THEN TRUE
    ELSE StartsWith(Lower(get_webhook_url(h)), HTTPS_PREFIX)

\* what one call ends with: the exception or "ok", the requests sent through the
\* session, the value returned, the error lines logged
R(x, posts, returned, log) == [exc |-> x, posts |-> posts, returned |-> returned, log |-> log]

\* class oAuthHandler (lines 16-21) defines __init__ and nothing else.  The text
\* of webhook_handler and get_refresh_token (lines 45-78) is indented under the
\* module-level function get_webhook_url, after its return statement (41): it
\* is never executed, so neither the class nor the module has these names.

\* oAuthHandler(hass, config).<name>(...): the attribute lookup
CallMethod(name) ==
    IF name \in {"__init__"} THEN R("ok", << >>, None, << >>)
    ELSE R("AttributeError", << >>, None, << >>)

\* handler.get_refresh_token(code)
get_refresh_token(code) == CallMethod("get_refresh_token")

\* handler.webhook_handler(webhook_id, request)
webhook_handler_mut(req) ==
    IF req.body = None THEN R("ok", << >>, None, <<"error">>)
    ELSE R("ok", <<[method |-> "post"]>>, None, << >>)
webhook_handler(req) == CallMethod("webhook_handler")

\* validate_webhook_requirements(hass), then get_webhook_url(hass)
HookValidate ==
    /\ ~hook.checked
    /\ hook' = [hook EXCEPT !.checked = TRUE,
                            !.valid = validate_webhook_requirements(hook.host),
                            !.url = get_webhook_url(hook.host)]
    /\ UNCHANGED <<flow, data, errors, result, call, cur_step, hostOrder, raw, ret,
                   listing, mailboxes, config_entry, written, auth, pending>>

\* the provider calls back: webhook_handler runs on the request
HookCallback ==
    /\ Len(hook.handled) < MaxCallbacks
    \* the "code" of the callback's JSON body, None when it has none
    /\ \E req \in [body : {None, "code1", "code2"}] :
          hook' = [hook EXCEPT !.handled = Append(@, [req |-> req] @@ webhook_handler(req))]
    /\ UNCHANGED <<flow, data, errors, result, call, cur_step, hostOrder, raw, ret,
                   listing, mailboxes, config_entry, written, auth, pending>>

\* get_refresh_token called with a code, status being what the token endpoint
\* answers to a request
HookRefresh ==
    /\ ~hook.refresh.called
    /\ \E status \in {200, 400, 401, 422, 429, 500} :
          hook' = [hook EXCEPT !.refresh =
                      [called |-> TRUE, status |-> status] @@ get_refresh_token("code1")]
    /\ UNCHANGED <<flow, data, errors, result, call, cur_step, hostOrder, raw, ret,
                   listing, mailboxes, config_entry, written, auth, pending>>

InitHook ==
    /\ flow = "webhook"
    /\ data = EmptyDict
    /\ errors = EmptyDict
    /\ result = NoResult
    /\ call = NoCall
    /\ cur_step = "start"
    /\ hostOrder = TRUE
    /\ raw = EMPTY_STR
    /\ ret = NotCalled
    /\ listing = NoListing
    /\ mailboxes = NotListed
    /\ config_entry = NoEntry
    /\ written = NoWrites
    /\ auth = NoAuth
    /\ hook \in {[NoHook EXCEPT !.host = h, !.method = m] :
                    h \in [active : BOOLEAN,
                           cloudhook : {NoUrl, Url(UrlOf(<<"h", "t", "t", "p", "s">>, "c"))},
                           local : {UrlOf(<<"h", "t", "t", "p">>, "l"),
                                    UrlOf(<<"h", "t", "t", "p", "s">>, "l"),
                                    UrlOf(<<"H", "T", "T", "P", "S">>, "l")}],
                    m \in {"o365", "gmail"}}
    /\ pending = NoPending

NextHook ==
    \/ HookValidate
    \/ HookCallback
    \/ HookRefresh

SpecHook == InitHook /\ [][NextHook]_vars

----------------------------------------------------------------------------
(* Properties                                                              *)

\* the last invocation was a submission (user_input not None) to one of steps
Submitted(steps) == call.has /\ call.step \in steps

\* the last invocation ran as the steps of one instance do: no other handler
\* call of the instance was under way between its call and its return
Sequential == call.alone

\* none of the calls went outside: to the identity provider or the mail server
Inside(calls) == \A i \in 1..Len(calls) : calls[i] = "O365Auth"

\* the form of the step that follows step
NextStep(step) ==
    CASE step \in {"manual", "o365"} -> "config_2"
      [] step = "config_2" -> "config_3"
      [] step = "init" -> "options_2"
      [] step = "options_2" -> "options_3"
      [] OTHER -> "none"

\* the host was shown the form of the step after the one submitted to, or the
\* record was created
Advanced ==
    \/ result.type = "create_entry"
    \/ result.type = "form" /\ result.step_id = NextStep(call.step)

\* the host was shown the form submitted to once more, with self._errors
ReRendered ==
    /\ result.type = "form"
    /\ result.step_id = call.step
    /\ result.errors = errors

\* C1: for every step that takes a submission, the flow moves on (next form or
\* created record) only if the submission left an empty error mapping; otherwise
\* the form of the same step is shown again with the non-empty mapping.
C1_AdvanceOrReRender ==
    (hostOrder /\ Submitted({"manual", "o365", "config_2", "config_3", "init",
                             "options_2", "options_3"}))
        => /\ Advanced => NoErrors(errors)
           /\ ~NoErrors(errors) => ReRendered

\* C2: choosing manual and submitting credentials that test_login accepts shows
\* the resource-selection form (step id config_2), without "communication"
\* error and without the step failing.
C2_ManualReachesConfig2 ==
    (hostOrder /\ Submitted({"manual"}) /\ call.login = "true")
        => /\ result.type = "form"
           /\ result.step_id = "config_2"
           /\ ~Has(result.errors, "base")

\* C3: in manual and in the options init step, a false test_login re-renders
\* the same step with base error "communication" and does not advance; a later
\* submission that test_login accepts advances to the next step.
C3_CommunicationThenAdvance ==
    (hostOrder /\ Submitted({"manual", "init"}))
        => /\ call.login = "false"
                => /\ ReRendered
                   /\ Has(errors, "base") /\ errors["base"] = "communication"
                   /\ call.entered = <<call.step>>
           /\ call.login = "true" => Advanced

\* C4: whichever authentication branch is taken, resource selection (config_2)
\* is entered only after test_login has actually returned true.
C4_Config2OnlyAfterLogin ==
    (hostOrder /\ Submitted({"manual", "o365"})
        /\ call.entered = <<call.step, "config_2">>)
        => call.login = "true"

\* the submission to resource selection passed validation
Step3Of(step) == IF step = "config_2" THEN "config_3" ELSE "options_3"
EnteredStep3 == call.entered = <<call.step, Step3Of(call.step)>>
\* the wizard knows the host it titles the record with (the options flow needs none)
TitleKnown == flow = "options" \/ Has(data, CONF_HOST)

\* C5: from resource selection (config_2 / options_2) with an error-free
\* submission, the custom-image-path step is entered if and only if the
\* accumulated custom_img flag is true (and then its form is shown); when the
\* flag is false the record is created directly and that step is not entered.
\* Stated for steps run one at a time, no other handler call of the instance
\* being under way while the step waits for the identity provider.
C5_CustomImgDecidesStep3 ==
    (Sequential /\ Submitted({"config_2", "options_2"}))
        => /\ EnteredStep3 <=> (NoErrors(errors) /\ data[CONF_CUSTOM_IMG])
           /\ EnteredStep3
                => result.type = "form" /\ result.step_id = Step3Of(call.step)
           /\ (NoErrors(errors) /\ ~data[CONF_CUSTOM_IMG] /\ TitleKnown)
                => result.type = "create_entry"
           /\ result.type = "create_entry" => ~data[CONF_CUSTOM_IMG]

\* C5 witness: a wizard driven in the host's order creates the record straight
\* from resource selection, the custom-image flag being false.
C5_Witness ==
    /\ hostOrder /\ Submitted({"config_2"})
    /\ result.type = "create_entry"
    /\ ~data[CONF_CUSTOM_IMG]
    /\ call.entered = <<"config_2">>

\* C6: every record handed to async_create_entry, by the wizard or by the
\* options flow, has scan interval >= 5 and IMAP timeout >= 10.
C6_CreatedRecordAboveFloors ==
    result.type = "create_entry"
        => /\ data[CONF_SCAN_INTERVAL] >= 5
           /\ data[CONF_IMAP_TIMEOUT] >= 10

\* C6 witness: a record created at the custom-image-path step, whose validation
\* runs over the accumulated data, with the values at the floors.
C6_Witness ==
    /\ hostOrder /\ Submitted({"config_3"})
    /\ result.type = "create_entry"
    /\ data[CONF_SCAN_INTERVAL] = 5
    /\ data[CONF_IMAP_TIMEOUT] = 10

\* the last invocation ran _validate_user_input to its end: on the submission
\* (step 2, which is then merged into data) or on data itself (step 3)
Validated ==
    /\ Submitted({"config_2", "options_2", "config_3", "options_3"})
    /\ {CONF_AMAZON_FWDS, CONF_GENERATE_MP4, CONF_CUSTOM_IMG, CONF_SCAN_INTERVAL,
        CONF_IMAP_TIMEOUT} \subseteq DOMAIN data

\* C7: _validate_user_input sets "scan_too_low" on the scan-interval field
\* exactly when the validated scan interval is < 5 and "timeout_too_low" on the
\* timeout field exactly when the validated timeout is < 10, each whatever the
\* other is; 5 and 10 give no error.  Stated for steps run one at a time: the
\* errors and the data read after the step are the ones that step left.
C7_NumericFloors ==
    (Sequential /\ Validated)
        => /\ Has(errors, CONF_SCAN_INTERVAL) <=> data[CONF_SCAN_INTERVAL] < 5
           /\ Has(errors, CONF_SCAN_INTERVAL)
                => errors[CONF_SCAN_INTERVAL] = "scan_too_low"
           /\ Has(errors, CONF_IMAP_TIMEOUT) <=> data[CONF_IMAP_TIMEOUT] < 10
           /\ Has(errors, CONF_IMAP_TIMEOUT)
                => errors[CONF_IMAP_TIMEOUT] = "timeout_too_low"

\* C7 witness: scan interval at its floor and timeout below its own: only the
\* timeout error is set.
C7_Witness ==
    /\ Submitted({"config_2"})
    /\ call.input[CONF_SCAN_INTERVAL] = 5
    /\ call.input[CONF_IMAP_TIMEOUT] = 9
    /\ ~Has(errors, CONF_SCAN_INTERVAL)
    /\ errors[CONF_IMAP_TIMEOUT] = "timeout_too_low"

\* C8: at resource selection (config_2 / options_2), when the submitted
\* custom-image flag is true and the accumulated data already holds a
\* custom-image path that names no existing file, the step sets
\* "file_not_found" on the path field and does not advance.
C8_StalePathRejectedAtStep2 ==
    (Submitted({"config_2", "options_2"})
        /\ call.input[CONF_CUSTOM_IMG]
        /\ Has(data, CONF_CUSTOM_IMG_FILE)
        /\ ~isfile(data[CONF_CUSTOM_IMG_FILE]))
        => /\ Has(errors, CONF_CUSTOM_IMG_FILE)
           /\ errors[CONF_CUSTOM_IMG_FILE] = "file_not_found"
           /\ call.entered = <<call.step>>
           /\ result.type # "create_entry"

\* C9: when the submitted forwarding text is rejected ("amazon_domain"), the
\* error is set on the forwarding field, the field's value is replaced by the
\* parsed list in the data the form is re-rendered from and in the accumulated
\* data, and the step re-renders instead of advancing.
C9_RejectedForwardsWrittenBack ==
    (hostOrder /\ Submitted({"config_2", "options_2"})
        /\ Contains(call.input[CONF_AMAZON_FWDS].v, AT_AMAZON))
        => /\ Has(errors, CONF_AMAZON_FWDS)
           /\ errors[CONF_AMAZON_FWDS] = "amazon_domain"
           /\ data[CONF_AMAZON_FWDS].t = "list"
           /\ ReRendered
           /\ result.user_input[CONF_AMAZON_FWDS] = data[CONF_AMAZON_FWDS]

\* "@amazon" occurs in s, position by position
OccursAtAmazon(s) ==
    \E i \in 1..Len(s) :
        /\ i + 6 <= Len(s)
        /\ s[i] = "@" /\ s[i + 1] = "a" /\ s[i + 2] = "m" /\ s[i + 3] = "a"
        /\ s[i + 4] = "z" /\ s[i + 5] = "o" /\ s[i + 6] = "n"

\* C10: _check_amazon_forwards returns exactly one status: "amazon_domain" if
\* the raw string contains "@amazon", "ok" otherwise, whatever commas or
\* placeholders the string holds.
C10_StatusIsAmazonDomainIffAtAmazon ==
    ret.called
        => /\ Len(ret.errors) = 1
           /\ ret.errors[1] = (IF OccursAtAmazon(raw) THEN "amazon_domain" ELSE "ok")

\* C10 witness: a string with a comma before an address on the vendor's domain
\* is given status "amazon_domain" (and is split at the comma).
C10_Witness ==
    /\ ret.called
    /\ raw = <<",", "@", "a", "m", "a", "z", "o", "n">>
    /\ ret.errors = <<"amazon_domain">>
    /\ ret.list = << << >>, <<"@", "a", "m", "a", "z", "o", "n">> >>

\* the pieces joined again with a comma between neighbours
RECURSIVE JoinComma(_)
JoinComma(pieces) ==
    IF Len(pieces) = 0 THEN << >>
    ELSE IF Len(pieces) = 1 THEN pieces[1]
    ELSE pieces[1] \o <<",">> \o JoinComma(Tail(pieces))

HasComma(s) == \E i \in 1..Len(s) : s[i] = ","

\* C11: the list returned by _check_amazon_forwards is the comma-split pieces in
\* order (nothing trimmed, nothing dropped) if the string holds a comma, empty
\* if the string is '' or '(none)', and otherwise the string alone; whatever
\* the status returned with it.
C11_ForwardsListShape ==
    ret.called
        => IF HasComma(raw)
           THEN /\ JoinComma(ret.list) = raw
                /\ \A i \in 1..Len(ret.list) : ~HasComma(ret.list[i])
           ELSE IF raw = << >> \/ raw = <<"(", "n", "o", "n", "e", ")">>
           THEN ret.list = << >>
           ELSE ret.list = <<raw>>

\* C11 witness: a rejected string ending in a comma gives both pieces, the
\* empty one included.
C11_Witness ==
    /\ ret.called
    /\ raw = <<"@", "a", "m", "a", "z", "o", "n", ",">>
    /\ ret.errors = <<"amazon_domain">>
    /\ ret.list = << <<"@", "a", "m", "a", "z", "o", "n">>, << >> >>

\* C12: an o365 submission without tenant id (None) re-renders the o365 form
\* with base error "tenant", and no call goes to the identity provider or to
\* the mail server for it.
C12_MissingTenantReRenders ==
    (hostOrder /\ Submitted({"o365"}) /\ call.input[CONF_O365_TENANT] = None)
        => /\ ReRendered
           /\ Has(errors, "base") /\ errors["base"] = "tenant"
           /\ Inside(call.calls)

\* C13: when the o365 step's token acquisition raises TokenError, the o365 form
\* is re-rendered with base error exactly "token" and the flow does not advance.
C13_TokenErrorReRenders ==
    (hostOrder /\ Submitted({"o365"}) /\ call.client = "TokenError")
        => /\ ReRendered
           /\ errors = ("base" :> "token")
           /\ call.entered = <<"o365">>

\* C14: building O365Auth on a configuration whose tenant id is None raises
\* MissingTenantID in the constructor, before any call to the identity provider
\* (ConfidentialClientApplication, acquire_token_silent,
\* acquire_token_for_client): zero provider calls have been made through the
\* object, so the constructor call is the last entry of the call log.
C14_MissingTenantBeforeAnyCall ==
    /\ (Submitted({"o365"}) /\ call.input[CONF_O365_TENANT] = None)
            => result.type = "raise" /\ result.exc = "MissingTenantID"
    /\ (result.type = "raise" /\ result.exc = "MissingTenantID")
            => /\ call.calls # << >>
               /\ call.calls[Len(call.calls)] = "O365Auth"

\* C14 witness: the o365 step built O365Auth on a submission without tenant.
C14_Witness ==
    /\ hostOrder /\ Submitted({"o365"})
    /\ call.input[CONF_O365_TENANT] = None
    /\ result.exc = "MissingTenantID"
    /\ call.calls = <<"O365Auth">>

\* sep occurs in entry
Holds(entry, sep) == \E i \in 1..Len(entry) : entry[i] = sep

\* the trailing name of an entry of the form <flags> sep <name>: all that
\* follows the first sep of the entry, to the end of the entry
NameAfter(entry, sep) ==
    LET first == CHOOSE i \in 1..Len(entry) :
                     entry[i] = sep /\ \A k \in 1..(i - 1) : entry[k] # sep
    IN  SubSeq(entry, first + 1, Len(entry))

Listed(status) == mailboxes.called /\ listing.status = status

\* C15: for an OK listing whose entries all hold the token ' "/" ',
\* _get_mailboxes returns exactly the trailing folder names, one per entry, in
\* the server's order, duplicates kept.
C15_SlashListingParsed ==
    (/\ Listed("OK")
     /\ \A i \in 1..Len(listing.folderlist) : Holds(listing.folderlist[i], "/"))
        => /\ Len(mailboxes.mailboxes) = Len(listing.folderlist)
           /\ \A i \in 1..Len(listing.folderlist) :
                 mailboxes.mailboxes[i] = NameAfter(listing.folderlist[i], "/")

\* C16: for an OK listing in which some entry (at any position) cannot be split
\* on ' "/" ' while every entry can be split on ' "." ', _get_mailboxes returns
\* the '.' parse of the whole listing: one name per entry, in order, nothing
\* left over from the '/' attempt.
C16_DotListingParsed ==
    (/\ Listed("OK")
     /\ \E i \in 1..Len(listing.folderlist) : ~Holds(listing.folderlist[i], "/")
     /\ \A i \in 1..Len(listing.folderlist) : Holds(listing.folderlist[i], "."))
        => /\ Len(mailboxes.mailboxes) = Len(listing.folderlist)
           /\ \A i \in 1..Len(listing.folderlist) :
                 mailboxes.mailboxes[i] = NameAfter(listing.folderlist[i], ".")

\* C17: for an OK listing on which the '/' parse and the '.' parse both fail on
\* some entry, _get_mailboxes returns exactly [DEFAULT_FOLDER].
C17_BothFailGivesDefault ==
    (/\ Listed("OK")
     /\ \E i \in 1..Len(listing.folderlist) : ~Holds(listing.folderlist[i], "/")
     /\ \E i \in 1..Len(listing.folderlist) : ~Holds(listing.folderlist[i], "."))
        => mailboxes.mailboxes = <<DEFAULT_FOLDER>>

\* C18: when the listing command's status is not 'OK', _get_mailboxes returns
\* exactly [DEFAULT_FOLDER], whatever entries came with the answer.
C18_NotOKGivesDefault ==
    (mailboxes.called /\ listing.status # "OK")
        => mailboxes.mailboxes = <<DEFAULT_FOLDER>>

\* C18 witness: a non-OK answer carrying two well-formed entries.
C18_Witness ==
    /\ Listed("NO")
    /\ listing.folderlist = << <<"f", "/", "A">>, <<"f", "/", "B">> >>
    /\ mailboxes.mailboxes = << <<"INBOX">> >>

\* C19: async_oauth_create_entry with a re-authentication entry set leaves the
\* existing record with its previous fields overridden by the new token data
\* (fields absent from the new data kept), creates no record, and ends the flow
\* with abort reason "reauth_successful".
C19_ReauthMergesIntoEntry ==
    (call.step = "oauth_create_entry" /\ config_entry.reauth)
        => /\ result.type = "abort"
           /\ result.reason = "reauth_successful"
           /\ config_entry.data = (call.input @@ call.before)

\* C20: every record the wizard creates through the o365 branch holds the
\* client id, the client secret, the tenant id and the bearer token acquired
\* during the flow.
C20_O365RecordHoldsCredentials ==
    (hostOrder /\ flow = "config" /\ result.type = "create_entry"
        /\ data[CONF_METHOD] = "o365")
        => {CONF_CLIENT_ID, CONF_SECRET, CONF_O365_TENANT, CONF_TOKEN}
                \subseteq DOMAIN data

\* the URL starts with https://, letter case aside
IsHttps(url) == StartsWith(Lower(url), HTTPS_PREFIX)

\* C21: the cloudhook URL being HTTPS, whenever validate_webhook_requirements
\* returns true the URL get_webhook_url returns for the same host state is
\* HTTPS: a plain-http local webhook URL is never accepted as the callback.
C21_ValidatedUrlIsHttps ==
    (hook.checked /\ hook.valid) => IsHttps(hook.url)

\* the statuses named as provider errors, and the token response
ProblemStatuses == {400, 422, 429, 500}
TokenJson == "resp.json()"

\* C22: a call of get_refresh_token sends exactly one POST to the token
\* endpoint; it returns the token response if and only if the status is 200,
\* and for a status in {400, 422, 429, 500} it logs an error and returns no
\* token.
C22_OnePostTokenIff200 ==
    hook.refresh.called
        => /\ Len(hook.refresh.posts) = 1
           /\ hook.refresh.posts[1].method = "post"
           /\ (hook.refresh.returned = TokenJson) <=> (hook.refresh.status = 200)
           /\ (hook.refresh.status \in ProblemStatuses)
                 => (hook.refresh.log # << >> /\ hook.refresh.returned = None)

\* the POSTs sent while the callbacks of handled that carry code were served
RECURSIVE PostsFor(_, _)
PostsFor(handled, code) ==
    IF handled = << >> THEN 0
    ELSE (IF Head(handled).req.body = code THEN Len(Head(handled).posts) ELSE 0)
             + PostsFor(Tail(handled), code)

\* the codes the callbacks served so far have carried
CodesOf(handled) == {handled[i].req.body : i \in 1..Len(handled)} \ {None}

\* this step serves one more callback, and an earlier callback has carried its
\* code
DuplicateServed ==
    /\ Len(hook'.handled) = Len(hook.handled) + 1
    /\ hook'.handled[Len(hook'.handled)].req.body \in CodesOf(hook.handled)

\* the step sends no POST and leaves everything but the record of the
\* callbacks served as it was
NothingDone ==
    /\ hook'.handled[Len(hook'.handled)].posts = << >>
    /\ [hook' EXCEPT !.handled = hook.handled] = hook
    /\ UNCHANGED <<flow, data, errors, result, call, cur_step, hostOrder, raw, ret,
                   listing, mailboxes, config_entry, written, auth, pending>>

\* C24: for each authorization code, the callbacks carrying it send at most
\* one POST to the token endpoint between them, and a callback carrying a code
\* that an earlier callback has carried sends no POST and changes no state.
C24_OneExchangePerCode ==
    /\ [](\A code \in CodesOf(hook.handled) : PostsFor(hook.handled, code) <= 1)
    /\ [][DuplicateServed => NothingDone]_vars

\* a callback with a code and a second callback with the same code have been
\* served, and no POST was sent for the second
C24_Witness ==
    /\ Len(hook.handled) = 2
    /\ hook.handled[1].req.body = "code1"
    /\ hook.handled[2].req.body = "code1"
    /\ hook.handled[2].posts = << >>

\* how often call name occurs in a call sequence
RECURSIVE Count(_, _)
Count(calls, name) ==
    IF calls = << >> THEN 0
    ELSE (IF Head(calls) = name THEN 1 ELSE 0) + Count(Tail(calls), name)

\* name a is called before every call of name b
Before(calls, a, b) ==
    \A j \in 1..Len(calls) :
        calls[j] = b => \E i \in 1..(j - 1) : calls[i] = a

\* C26: client() asks acquire_token_silent first and calls
\* acquire_token_for_client only when the silent lookup returned nothing; when
\* the silent lookup returns a result there is no client-credentials request,
\* and there is at most one such request per call of client().
C26_SilentFirstThenOneGrant ==
    /\ Before(auth.run.calls, "acquire_token_silent", "acquire_token_for_client")
    /\ Count(auth.run.calls, "acquire_token_silent") <= 1
    /\ Count(auth.run.calls, "acquire_token_for_client") <= 1
    /\ Count(auth.run.calls, "acquire_token_for_client") = 1 => ~auth.prov.cached
    /\ (auth.run.at = "done" /\ auth.run.out.exc \in {"ok", "TokenError"})
          => /\ Count(auth.run.calls, "acquire_token_silent") = 1
             /\ Count(auth.run.calls, "acquire_token_for_client") =
                   (IF auth.prov.cached THEN 0 ELSE 1)

\* C26 witness: the cache is empty and the grant fails: one request, TokenError.
C26_Witness ==
    /\ auth.run.at = "done"
    /\ ~auth.prov.cached
    /\ auth.prov.fresh = ErrorResult
    /\ auth.run.out.exc = "TokenError"
    /\ auth.run.calls = <<"ConfidentialClientApplication", "acquire_token_silent",
                          "acquire_token_for_client">>

\* every item of d is one that w holds, with that value
OnlyFrom(d, w) == \A k \in DOMAIN d : Has(w, k) /\ w[k] = d[k]

\* C23: with two OAuth2FlowHandler instances taking steps in any order, the
\* accumulated data each instance sees holds only the items that instance
\* wrote: what one instance writes never shows in the other's data.
C23_InstancesDoNotShareData ==
    flow = "oauth" => (OnlyFrom(data, written[1]) /\ OnlyFrom(data, written[2]))

\* the operations of the host calls made, in order
RECURSIVE Ops(_)
Ops(calls) == IF calls = << >> THEN << >> ELSE <<Head(calls).op>> \o Ops(Tail(calls))

\* C25: when the authorization of a re-authentication comes back, the entry is
\* updated, then reloaded exactly once, and only then the flow ends with
\* "reauth_successful"; on the creation path no reload is triggered.
C25_UpdateThenOneReload ==
    call.step = "oauth_create_entry"
        => IF config_entry.reauth
           THEN /\ Ops(call.calls) = <<"async_update_entry", "async_reload">>
                /\ result.type = "abort"
                /\ result.reason = "reauth_successful"
           ELSE Count(Ops(call.calls), "async_reload") = 0

\* the accumulated data d holds the method tag
Tagged(d) == Has(d, CONF_METHOD)

\* a submission to a method branch leaves that branch's tag in the data
BranchWritesTag ==
    /\ (hostOrder /\ Submitted({"manual"})) => (Tagged(data) /\ data[CONF_METHOD] = "standard")
    /\ (hostOrder /\ Submitted({"o365"})) => (Tagged(data) /\ data[CONF_METHOD] = "o365")
    /\ (flow = "oauth" /\ Tagged(data)) => data[CONF_METHOD] = "gmail"

\* a step of the flow keeps the tag the data holds
TagKept ==
    (hostOrder' /\ Tagged(data)) => (Tagged(data') /\ data'[CONF_METHOD] = data[CONF_METHOD])

\* C27: within one flow, the method branch writes its tag ("standard" for
\* manual, "o365" for o365, "gmail" for the Google path), and once the tag is
\* in the accumulated data no later step and no rejected resubmission changes
\* or removes it, so the record created from the data carries it.
C27_MethodTagFixed == []BranchWritesTag /\ [][TagKept]_vars

\* C27 witness: an o365 flow went through config_2 and config_3 and created
\* its record, which carries the tag the branch wrote.
C27_Witness ==
    /\ hostOrder
    /\ flow = "config"
    /\ call.step = "config_3"
    /\ result.type = "create_entry"
    /\ Tagged(data)
    /\ data[CONF_METHOD] = "o365"

====
